---- MODULE Spec2Model ----
(***************************************************************************)
(* A model of the ILP address type (crates/interledger-packet,             *)
(* address.rs),                                                            *)
(* of the peer-configuration (ILDCP) packets built on it                   *)
(* (crates/interledger-ildcp, packet.rs) and of the incoming-settlement    *)
(* handler (crates/interledger-settlement, api.rs).                        *)
(*                                                                         *)
(* A byte string is a sequence of integers 0..255.  Text is written as its *)
(* ASCII codes: '.' is 46, '_' is 95, "test" is <<116, 101, 115, 116>>.    *)
(***************************************************************************)
EXTENDS Integers, Sequences, FiniteSets

VARIABLES
    input,      \* the bytes the caller hands to parsing
    self,       \* the Address the caller holds (an Option<Address>)
    last,       \* the last Address operation: its name, argument, receiver, result
    segs,       \* what iterating self.segments() yielded, front and back
    response,   \* the IldcpResponse the builder made, with the builder's
                \* fields and the capacity its buffer was allocated with
    parsed,     \* the result of IldcpResponse::try_from on a buffer
    prepare,    \* the Prepare at hand, with what made it
    isreq,      \* what is_ildcp_request answered for the Prepare at hand
    now,        \* the reading of SystemTime::now() when the Prepare was made
    fulfill,    \* the Fulfill an IldcpResponse was converted into
    reparsed,   \* the result of IldcpResponse::try_from on the Fulfill's data
    api         \* a receive_settlement call: its request, its store, its stage

vars ==
    <<input, self, last, segs, response, parsed, prepare, isreq, now,
      fulfill, reparsed, api>>
addressVars == <<input, self, last, segs>>
ildcpVars == <<response, parsed>>
prepareVars == <<prepare, isreq, now>>
fulfillVars == <<fulfill, reparsed>>

-----------------------------------------------------------------------------
(* Bounds of the model.                                                    *)

\* Inputs are built from at most MaxTokens tokens (see Tokens).
MaxTokens == 3
\* The caller rebinds to a suffixed address only up to MaxSegments segments.
MaxSegments == 3

-----------------------------------------------------------------------------
(* Byte-string helpers.                                                    *)

\* v[from..] of a slice (1-based, from may be Len(v) + 1).
Drop(v, n) == SubSeq(v, n + 1, Len(v))
Take(v, n) == SubSeq(v, 1, n)

HasPrefix(s, p) == Len(p) <= Len(s) /\ \A i \in 1..Len(p) : s[i] = p[i]

\* Vec::resize(length, fill) as make_address uses it: truncate or pad.
Resize(v, length, fill) ==
    [i \in 1..length |-> IF i <= Len(v) THEN v[i] ELSE fill]

Reverse(q) == [i \in 1..Len(q) |-> q[Len(q) + 1 - i]]

-----------------------------------------------------------------------------
(* Option and Result values.                                               *)

None == [some |-> FALSE, val |-> <<>>]
Some(v) == [some |-> TRUE, val |-> v]

\* Result<T, ParseError>: err names the ParseError variant, len is the
\* usize InvalidLength carries.
Ok(v) == [ok |-> TRUE, val |-> v, err |-> "none", len |-> 0]
Err(kind, n) == [ok |-> FALSE, val |-> <<>>, err |-> kind, len |-> n]

-----------------------------------------------------------------------------
(* address.rs                                                              *)

MAX_ADDRESS_LENGTH == 1023

\* struct Address(Bytes)
Address(bytes) == [bytes |-> bytes]

\* The character class [a-zA-Z0-9_~-] of ADDRESS_PATTERN.
PatternClass == (97..122) \cup (65..90) \cup (48..57) \cup {95, 126, 45}

\* The alternation (g|private|example|peer|self|test[1-3]?|local).
PatternSchemes ==
    { <<103>>,
      <<112, 114, 105, 118, 97, 116, 101>>,
      <<101, 120, 97, 109, 112, 108, 101>>,
      <<112, 101, 101, 114>>,
      <<115, 101, 108, 102>>,
      <<108, 111, 99, 97, 108>> }
    \cup { <<116, 101, 115, 116>> \o d : d \in {<<>>} \cup { <<c>> : c \in 49..51 } }

\* The groups with * in place of +: ([.][a-zA-Z0-9_~-]*)+$.
PatternGroups_star(s, j) ==
    /\ j <= Len(s)
    /\ s[j] = 46
    /\ \A i \in j..Len(s) : s[i] \in PatternClass \/ s[i] = 46

\* ([.][a-zA-Z0-9_~-]+)+$ matched from position j to the end of s: every
\* '.' is followed by a class character, everything else is a class
\* character, and the first group starts at j.
PatternGroups(s, j) ==
    /\ j <= Len(s)
    /\ s[j] = 46
    /\ \A i \in j..Len(s) :
          \/ s[i] \in PatternClass
          \/ s[i] = 46 /\ i < Len(s) /\ s[i + 1] \in PatternClass

\* ADDRESS_PATTERN.is_match(s): the pattern is anchored at both ends.
ADDRESS_PATTERN_is_match(s) ==
    \E sc \in PatternSchemes : HasPrefix(s, sc) /\ PatternGroups(s, Len(sc) + 1)

\* A well-formed UTF-8 sequence of n bytes starts at s[i] (std::str::from_utf8:
\* no overlong forms, no surrogates, nothing above U+10FFFF).
IsCont(b) == b \in 128..191
Utf8Width(b) ==
    IF b <= 127 THEN 1
    ELSE IF b \in 194..223 THEN 2
    ELSE IF b \in 224..239 THEN 3
    ELSE IF b \in 240..244 THEN 4
    ELSE 0
Utf8SeqAt(s, i) ==
    LET w == Utf8Width(s[i]) IN
    /\ w > 0
    /\ i + w - 1 <= Len(s)
    /\ \A k \in (i + 1)..(i + w - 1) : IsCont(s[k])
    /\ (s[i] = 224 => s[i + 1] >= 160)
    /\ (s[i] = 237 => s[i + 1] <= 159)
    /\ (s[i] = 240 => s[i + 1] >= 144)
    /\ (s[i] = 244 => s[i + 1] <= 143)

\* str::from_utf8(&bytes).is_ok(): every byte starts a well-formed sequence
\* or is a continuation byte inside the one started just before it.
from_utf8_ok(s) ==
    \A i \in 1..Len(s) :
        IF IsCont(s[i])
        THEN \E j \in 1..3 :
                 /\ i - j >= 1
                 /\ ~IsCont(s[i - j])
                 /\ Utf8SeqAt(s, i - j)
                 /\ Utf8Width(s[i - j]) > j
                 /\ \A k \in (i - j + 1)..(i - 1) : IsCont(s[k])
        ELSE Utf8SeqAt(s, i)

\* The length check off by one: bytes.len() >= MAX_ADDRESS_LENGTH.
Address_try_from_ge(bytes) ==
    IF Len(bytes) >= MAX_ADDRESS_LENGTH
    THEN Err("InvalidLength", Len(bytes))
    ELSE IF ~from_utf8_ok(bytes)
    THEN Err("Utf8", 0)
    ELSE IF ADDRESS_PATTERN_is_match(bytes)
    THEN Ok(Address(bytes))
    ELSE Err("InvalidFormat", 0)

\* The text conversion made before the length check.
Address_try_from_utf8_first(bytes) ==
    IF ~from_utf8_ok(bytes)
    THEN Err("Utf8", 0)
    ELSE IF Len(bytes) > MAX_ADDRESS_LENGTH
    THEN Err("InvalidLength", Len(bytes))
    ELSE IF ADDRESS_PATTERN_is_match(bytes)
    THEN Ok(Address(bytes))
    ELSE Err("InvalidFormat", 0)

\* impl TryFrom<Bytes> for Address (from_str and TryFrom<&[u8]> delegate to it).
Address_try_from(bytes) ==
    IF Len(bytes) > MAX_ADDRESS_LENGTH
    THEN Err("InvalidLength", Len(bytes))
    ELSE IF ~from_utf8_ok(bytes)
    THEN Err("Utf8", 0)
    ELSE IF ADDRESS_PATTERN_is_match(bytes)
    THEN Ok(Address(bytes))
    ELSE Err("InvalidFormat", 0)

\* impl Deref for Address: the bytes seen as a str.
deref(a) == a.bytes

\* impl fmt::Display for Address: formatter.write_str(self).
Display(a) == deref(a)

\* Address::len
len(a) == Len(a.bytes)

\* with_suffix without the put(b'.').
with_suffix_no_separator(a, suffix) ==
    [selfAfter |-> a, result |-> Address_try_from(a.bytes \o suffix)]

\* with_suffix putting the separator only when the suffix brings none.
with_suffix_optional_separator(a, suffix) ==
    LET new_address ==
            IF Len(suffix) > 0 /\ suffix[1] = 46
            THEN a.bytes \o suffix
            ELSE (a.bytes \o <<46>>) \o suffix
    IN [selfAfter |-> a, result |-> Address_try_from(new_address)]

\* with_suffix as a fast-path append: the new bytes are not validated.
with_suffix_unchecked(a, suffix) ==
    [selfAfter |-> a, result |-> Ok(Address((a.bytes \o <<46>>) \o suffix))]

\* Address::with_suffix: self + '.' + suffix, parsed again.  The call
\* borrows self; selfAfter is the receiver as the call leaves it.
with_suffix(a, suffix) ==
    LET new_address == (a.bytes \o <<46>>) \o suffix IN
    [selfAfter |-> a, result |-> Address_try_from(new_address)]

\* slice::Split over |&b| b == b'.': the iterator state is the rest of the
\* slice and the finished flag.
SplitIter(v) == [v |-> v, finished |-> FALSE]

DotPositions(v) == { i \in 1..Len(v) : v[i] = 46 }
FirstDot(v) == CHOOSE i \in DotPositions(v) : \A k \in DotPositions(v) : i <= k
LastDot(v) == CHOOSE i \in DotPositions(v) : \A k \in DotPositions(v) : i >= k

\* next with the separator left at the end of the item.
SplitNext_keeps_separator(it) ==
    IF it.finished
    THEN [item |-> None, it |-> it]
    ELSE IF DotPositions(it.v) = {}
    THEN [item |-> Some(it.v), it |-> [v |-> it.v, finished |-> TRUE]]
    ELSE [item |-> Some(Take(it.v, FirstDot(it.v))),
          it |-> [v |-> Drop(it.v, FirstDot(it.v)), finished |-> FALSE]]

\* Iterator::next: up to the first '.', or the whole rest once.
SplitNext(it) ==
    IF it.finished
    THEN [item |-> None, it |-> it]
    ELSE IF DotPositions(it.v) = {}
    THEN [item |-> Some(it.v), it |-> [v |-> it.v, finished |-> TRUE]]
    ELSE [item |-> Some(Take(it.v, FirstDot(it.v) - 1)),
          it |-> [v |-> Drop(it.v, FirstDot(it.v)), finished |-> FALSE]]

\* DoubleEndedIterator::next_back: after the last '.', or the whole rest once.
SplitNextBack(it) ==
    IF it.finished
    THEN [item |-> None, it |-> it]
    ELSE IF DotPositions(it.v) = {}
    THEN [item |-> Some(it.v), it |-> [v |-> it.v, finished |-> TRUE]]
    ELSE [item |-> Some(Drop(it.v, LastDot(it.v))),
          it |-> [v |-> Take(it.v, LastDot(it.v) - 1), finished |-> FALSE]]

RECURSIVE CollectFront(_)
CollectFront(it) ==
    LET n == SplitNext(it) IN
    IF n.item.some THEN <<n.item.val>> \o CollectFront(n.it) ELSE <<>>

RECURSIVE CollectBack(_)
CollectBack(it) ==
    LET n == SplitNextBack(it) IN
    IF n.item.some THEN <<n.item.val>> \o CollectBack(n.it) ELSE <<>>

\* Address::segments: the iterator, consumed from the front.
segments(a) == CollectFront(SplitIter(a.bytes))

\* Address::segments, consumed from the back (.rev() or next_back()).
segments_rev(a) == CollectBack(SplitIter(a.bytes))

-----------------------------------------------------------------------------
(* The variable-length octet-string codec (interledger-packet, oer).       *)

\* The number of bytes of the big-endian form of n.
RECURSIVE ByteLen(_)
ByteLen(n) == IF n < 256 THEN 1 ELSE 1 + ByteLen(n \div 256)

\* n in k big-endian bytes.
RECURSIVE BigEndian(_, _)
BigEndian(n, k) ==
    IF k = 0 THEN <<>> ELSE Append(BigEndian(n \div 256, k - 1), n % 256)

\* The number a big-endian byte string encodes.
RECURSIVE FromBigEndian(_)
FromBigEndian(b) ==
    IF Len(b) = 0 THEN 0
    ELSE FromBigEndian(Take(b, Len(b) - 1)) * 256 + b[Len(b)]

\* The length prefix: one byte below 128, else a lead byte with the high
\* bit set counting the big-endian length bytes that follow.
put_var_octet_string_length(length) ==
    IF length < 128 THEN <<length>>
    ELSE <<128 + ByteLen(length)>> \o BigEndian(length, ByteLen(length))

\* The size of the whole encoded field of a payload of that size, the
\* length prefix and the payload: IldcpResponseBuilder::build sizes its
\* buffer by it and takes the asset code to begin that many bytes (and the
\* scale byte) into the buffer.
predict_var_octet_string(length) ==
    IF length < 128 THEN 1 + length ELSE 1 + ByteLen(length) + length

\* The length prefix at the head of reader: [ok, hdr (its size), length].
ReadLength(reader) ==
    IF Len(reader) = 0 THEN [ok |-> FALSE, hdr |-> 0, length |-> 0]
    ELSE IF reader[1] < 128 THEN [ok |-> TRUE, hdr |-> 1, length |-> reader[1]]
    ELSE LET n == reader[1] - 128 IN
         IF Len(reader) < 1 + n THEN [ok |-> FALSE, hdr |-> 0, length |-> 0]
         ELSE [ok |-> TRUE, hdr |-> 1 + n,
               length |-> FromBigEndian(SubSeq(reader, 2, 1 + n))]

\* read_var_octet_string: the payload and the reader advanced past it, or
\* an Io error when the buffer ends before the declared length.
read_var_octet_string(reader) ==
    LET h == ReadLength(reader) IN
    IF ~h.ok \/ Len(reader) < h.hdr + h.length
    THEN [ok |-> FALSE, val |-> <<>>, rest |-> reader, err |-> "Io"]
    ELSE [ok |-> TRUE, val |-> SubSeq(reader, h.hdr + 1, h.hdr + h.length),
          rest |-> Drop(reader, h.hdr + h.length), err |-> "none"]

\* peek_var_octet_string: the same validation, the reader not advanced.
peek_var_octet_string(reader) ==
    LET r == read_var_octet_string(reader) IN
    [ok |-> r.ok, val |-> r.val, rest |-> reader, err |-> r.err]

\* skip_var_octet_string: the reader advanced, the payload not returned.
skip_var_octet_string(reader) ==
    LET r == read_var_octet_string(reader) IN
    [ok |-> r.ok, val |-> <<>>, rest |-> r.rest, err |-> r.err]

\* ReadBytesExt::read_u8 on a slice.
read_u8(reader) ==
    IF Len(reader) = 0
    THEN [ok |-> FALSE, val |-> 0, rest |-> reader, err |-> "Io"]
    ELSE [ok |-> TRUE, val |-> reader[1], rest |-> Tail(reader), err |-> "none"]

-----------------------------------------------------------------------------
(* The packet types (interledger-packet, packet).                          *)

\* PrepareBuilder { .. }.build(): the Prepare carrying the builder's fields.
PrepareBuilder_build(b) ==
    [destination |-> b.destination, amount |-> b.amount,
     execution_condition |-> b.execution_condition,
     expires_at |-> b.expires_at, data |-> b.data]

\* Prepare::destination and Prepare::execution_condition.
destination(p) == p.destination
execution_condition(p) == p.execution_condition

\* FulfillBuilder { fulfillment, data }.build(): the packet's buffer holds
\* the 32 bytes of the fulfillment and then the data as an octet string.
FulfillBuilder_build(b) ==
    [buffer |-> b.fulfillment
                    \o put_var_octet_string_length(Len(b.data)) \o b.data]

\* Fulfill::fulfillment and Fulfill::data, read back from the buffer.
Fulfill_fulfillment(f) == Take(f.buffer, 32)
Fulfill_data(f) == read_var_octet_string(Drop(f.buffer, 32)).val

-----------------------------------------------------------------------------
(* ildcp packet.rs                                                         *)

PEER_PROTOCOL_FULFILLMENT == [i \in 1..32 |-> 0]
PEER_PROTOCOL_CONDITION ==
    <<102, 104, 122, 173, 248, 98, 189, 119, 108, 143, 193, 139, 142, 159,
      142, 32, 8, 151, 20, 133, 110, 226, 51, 179, 144, 42, 89, 29, 13, 95,
      41, 37>>
ASSET_SCALE_LEN == 1

\* Duration::from_secs(60); time is counted in seconds.
PEER_PROTOCOL_EXPIRY_DURATION == 60

\* Address::from_str("peer.config").unwrap()
ILDCP_DESTINATION ==
    Address_try_from(<<112, 101, 101, 114, 46, 99, 111, 110, 102, 105, 103>>).val

\* is_ildcp_request with || in place of &&.
is_ildcp_request_either(p) ==
    \/ execution_condition(p) = PEER_PROTOCOL_CONDITION
    \/ destination(p) = ILDCP_DESTINATION

is_ildcp_request(p) ==
    /\ execution_condition(p) = PEER_PROTOCOL_CONDITION
    /\ destination(p) = ILDCP_DESTINATION

\* to_prepare with the expiry duration left out.
to_prepare_no_duration(systemTimeNow) ==
    PrepareBuilder_build(
        [destination |-> ILDCP_DESTINATION,
         amount |-> 0,
         execution_condition |-> PEER_PROTOCOL_CONDITION,
         expires_at |-> systemTimeNow,
         data |-> <<>>])

\* IldcpRequest::to_prepare; systemTimeNow is what SystemTime::now() reads.
to_prepare(systemTimeNow) ==
    PrepareBuilder_build(
        [destination |-> ILDCP_DESTINATION,
         amount |-> 0,
         execution_condition |-> PEER_PROTOCOL_CONDITION,
         expires_at |-> systemTimeNow + PEER_PROTOCOL_EXPIRY_DURATION,
         data |-> <<>>])

\* impl From<IldcpRequest> for Prepare
From_IldcpRequest(systemTimeNow) == to_prepare(systemTimeNow)

\* struct IldcpResponse
IldcpResponse(buffer, asset_scale, asset_code_offset, ilp_address) ==
    [buffer |-> buffer, asset_scale |-> asset_scale,
     asset_code_offset |-> asset_code_offset, ilp_address |-> ilp_address]

\* impl From<IldcpResponse> for Bytes
Bytes_from(r) == r.buffer

\* The conversion answering with the condition in place of the fulfillment.
Fulfill_from_with_condition(r) ==
    FulfillBuilder_build([fulfillment |-> PEER_PROTOCOL_CONDITION,
                          data |-> r.buffer])

\* impl From<IldcpResponse> for Fulfill
Fulfill_from(r) ==
    FulfillBuilder_build([fulfillment |-> PEER_PROTOCOL_FULFILLMENT,
                          data |-> r.buffer])

\* try_from taking the offset before it reads the scale byte.
IldcpResponse_try_from_offset_at_scale(buffer) ==
    LET buffer_len == Len(buffer)
        buf == read_var_octet_string(buffer)
        ilp_address == Address_try_from(buf.val)
        scale == read_u8(buf.rest)
        asset_code_offset == buffer_len - Len(buf.rest)
        skipped == skip_var_octet_string(scale.rest)
    IN
    IF ~buf.ok THEN Err(buf.err, 0)
    ELSE IF ~ilp_address.ok THEN ilp_address
    ELSE IF ~scale.ok THEN Err(scale.err, 0)
    ELSE IF ~skipped.ok THEN Err(skipped.err, 0)
    ELSE Ok(IldcpResponse(buffer, scale.val, asset_code_offset, ilp_address.val))

\* try_from reading the scale byte before it validates the address.
IldcpResponse_try_from_scale_first(buffer) ==
    LET buffer_len == Len(buffer)
        buf == read_var_octet_string(buffer)
        ilp_address == Address_try_from(buf.val)
        scale == read_u8(buf.rest)
        asset_code_offset == buffer_len - Len(scale.rest)
        skipped == skip_var_octet_string(scale.rest)
    IN
    IF ~buf.ok THEN Err(buf.err, 0)
    ELSE IF ~scale.ok THEN Err(scale.err, 0)
    ELSE IF ~ilp_address.ok THEN ilp_address
    ELSE IF ~skipped.ok THEN Err(skipped.err, 0)
    ELSE Ok(IldcpResponse(buffer, scale.val, asset_code_offset, ilp_address.val))

\* impl TryFrom<Bytes> for IldcpResponse
IldcpResponse_try_from(buffer) ==
    LET buffer_len == Len(buffer)
        buf == read_var_octet_string(buffer)
        ilp_address == Address_try_from(buf.val)
        scale == read_u8(buf.rest)
        asset_code_offset == buffer_len - Len(scale.rest)
        skipped == skip_var_octet_string(scale.rest)
    IN
    IF ~buf.ok THEN Err(buf.err, 0)
    ELSE IF ~ilp_address.ok THEN ilp_address
    ELSE IF ~scale.ok THEN Err(scale.err, 0)
    ELSE IF ~skipped.ok THEN Err(skipped.err, 0)
    ELSE Ok(IldcpResponse(buffer, scale.val, asset_code_offset, ilp_address.val))

\* IldcpResponse::client_address, asset_scale
client_address(r) == Address(r.ilp_address.bytes)
asset_scale(r) == r.asset_scale

\* IldcpResponse::asset_code: the unwrap panics when the peek fails (and
\* the slice panics when the offset is past the end of the buffer).
asset_code(r) ==
    IF r.asset_code_offset > Len(r.buffer) THEN Err("panic", 0)
    ELSE LET p == peek_var_octet_string(Drop(r.buffer, r.asset_code_offset)) IN
         IF p.ok THEN Ok(p.val) ELSE Err("panic", 0)

\* buf_size leaving the scale byte out.
IldcpResponseBuilder_buf_size_no_scale(b) ==
    predict_var_octet_string(len(b.client_address))
        + predict_var_octet_string(Len(b.asset_code))

\* build's buf_size, the capacity BytesMut::with_capacity is given.
IldcpResponseBuilder_buf_size(b) ==
    LET address_size == predict_var_octet_string(len(b.client_address))
        asset_code_size == predict_var_octet_string(Len(b.asset_code))
    IN ASSET_SCALE_LEN + address_size + asset_code_size

\* build writing the scale byte after the asset code.
IldcpResponseBuilder_build_scale_last(b) ==
    LET address_size == predict_var_octet_string(len(b.client_address))
        buffer ==
            put_var_octet_string_length(len(b.client_address))
                \o b.client_address.bytes
                \o put_var_octet_string_length(Len(b.asset_code))
                \o b.asset_code
                \o <<b.asset_scale>>
    IN IldcpResponse(buffer, b.asset_scale, address_size + ASSET_SCALE_LEN,
                     Address(b.client_address.bytes))

\* IldcpResponseBuilder { client_address, asset_scale, asset_code }.build()
IldcpResponseBuilder_build(b) ==
    LET address_size == predict_var_octet_string(len(b.client_address))
        asset_code_size == predict_var_octet_string(Len(b.asset_code))
        buf_size == ASSET_SCALE_LEN + address_size + asset_code_size
        buffer ==
            put_var_octet_string_length(len(b.client_address))
                \o b.client_address.bytes
                \o <<b.asset_scale>>
                \o put_var_octet_string_length(Len(b.asset_code))
                \o b.asset_code
    IN IldcpResponse(buffer, b.asset_scale, address_size + ASSET_SCALE_LEN,
                     Address(b.client_address.bytes))

-----------------------------------------------------------------------------
(* Unsigned integers wider than the checker's own.  A number is the        *)
(* sequence of its base-256 digits, lowest first, with no leading zero     *)
(* digit; zero is <<>>.  A u64 has at most eight digits.                   *)

RECURSIVE Norm(_)
Norm(x) ==
    IF Len(x) = 0 THEN x
    ELSE IF x[Len(x)] = 0 THEN Norm(Take(x, Len(x) - 1))
    ELSE x

\* The digits of a small number.
RECURSIVE Digits(_)
Digits(n) == IF n = 0 THEN <<>> ELSE <<n % 256>> \o Digits(n \div 256)

\* x + y + carry.
RECURSIVE AddCarry(_, _, _)
AddCarry(x, y, carry) ==
    IF Len(x) = 0 /\ Len(y) = 0 THEN Digits(carry)
    ELSE LET a == IF Len(x) = 0 THEN 0 ELSE x[1]
             b == IF Len(y) = 0 THEN 0 ELSE y[1]
             t == a + b + carry
         IN <<t % 256>>
                \o AddCarry(IF Len(x) = 0 THEN x ELSE Tail(x),
                            IF Len(y) = 0 THEN y ELSE Tail(y), t \div 256)

Add(x, y) == Norm(AddCarry(x, y, 0))

\* x * m + carry for a small m.
RECURSIVE MulSmallCarry(_, _, _)
MulSmallCarry(x, m, carry) ==
    IF Len(x) = 0 THEN Digits(carry)
    ELSE LET t == x[1] * m + carry
         IN <<t % 256>> \o MulSmallCarry(Tail(x), m, t \div 256)

MulSmall(x, m) == Norm(MulSmallCarry(x, m, 0))

\* x * y.
RECURSIVE Mul(_, _)
Mul(x, y) ==
    IF Len(y) = 0 THEN <<>>
    ELSE Add(MulSmall(x, y[1]), Norm(<<0>> \o Mul(x, Tail(y))))

\* x >= y.
RECURSIVE GeqDigits(_, _)
GeqDigits(x, y) ==
    IF Len(x) # Len(y) THEN Len(x) > Len(y)
    ELSE IF Len(x) = 0 THEN TRUE
    ELSE IF x[Len(x)] # y[Len(y)] THEN x[Len(x)] > y[Len(y)]
    ELSE GeqDigits(Take(x, Len(x) - 1), Take(y, Len(y) - 1))

Geq(x, y) == GeqDigits(Norm(x), Norm(y))

\* x - y - borrow, for x >= y.
RECURSIVE SubBorrow(_, _, _)
SubBorrow(x, y, borrow) ==
    IF Len(x) = 0 THEN <<>>
    ELSE LET b == IF Len(y) = 0 THEN 0 ELSE y[1]
             t == x[1] - b - borrow
         IN <<(t + 256) % 256>>
                \o SubBorrow(Tail(x), IF Len(y) = 0 THEN y ELSE Tail(y),
                             IF t < 0 THEN 1 ELSE 0)

Sub(x, y) == Norm(SubBorrow(x, y, 0))

\* The quotient of x by a small m > 0, from the highest digit down.
RECURSIVE DivSmallRem(_, _, _)
DivSmallRem(x, m, rem) ==
    IF Len(x) = 0 THEN <<>>
    ELSE LET t == rem * 256 + x[Len(x)]
         IN Append(DivSmallRem(Take(x, Len(x) - 1), m, t % m), t \div m)

DivSmall(x, m) == Norm(DivSmallRem(x, m, 0))

\* The quotient and the remainder of x by y > 0, bit by bit from bit i
\* of x down (q and r are the quotient and remainder of the bits above).
DivModStep(x, y, i, q, r) ==
    LET bit == (x[(i \div 8) + 1] \div (2 ^ (i % 8))) % 2
        r2 == Add(MulSmall(r, 2), Digits(bit))
    IN IF Geq(r2, y)
       THEN [q |-> Add(MulSmall(q, 2), <<1>>), r |-> Sub(r2, y)]
       ELSE [q |-> MulSmall(q, 2), r |-> r2]

RECURSIVE DivModFrom(_, _, _, _)
DivModFrom(x, y, i, qr) ==
    IF i < 0 THEN qr
    ELSE CHOOSE res \in { DivModFrom(x, y, i - 1, step) :
                              step \in {DivModStep(x, y, i, qr.q, qr.r)} } :
             TRUE

DivMod(x, y) ==
    DivModFrom(x, y, 8 * Len(x) - 1, [q |-> <<>>, r |-> <<>>])

\* u64: the low 64 bits of a number, and whether it has more.
U64_DIGITS == 8
Wrap64(x) == Norm(IF Len(x) > U64_DIGITS THEN Take(x, U64_DIGITS) ELSE x)
Exceeds64(x) == Len(Norm(x)) > U64_DIGITS

\* u64 * u64 as the build computes it: [val, overflow].
u64_mul(x, y) ==
    LET product == Mul(x, y)
    IN [val |-> Wrap64(product), overflow |-> Exceeds64(product)]

\* u64::pow(self, exp): exponentiation by squaring over u64_mul;
\* [val, overflow].
RECURSIVE u64_pow_loop(_, _, _, _)
u64_pow_loop(base, acc, exp, overflow) ==
    IF exp > 1
    THEN LET a == IF exp % 2 = 1 THEN u64_mul(acc, base)
                  ELSE [val |-> acc, overflow |-> FALSE]
             b == u64_mul(base, base)
         IN u64_pow_loop(b.val, a.val, exp \div 2,
                         overflow \/ a.overflow \/ b.overflow)
    ELSE IF exp = 1
    THEN LET a == u64_mul(acc, base)
         IN [val |-> a.val, overflow |-> overflow \/ a.overflow]
    ELSE [val |-> acc, overflow |-> overflow]

u64_pow(base, exp) == u64_pow_loop(base, <<1>>, exp, FALSE)

-----------------------------------------------------------------------------
(* settlement api.rs: receive_settlement.                                  *)
(* An account is [id, asset_scale, settlement_engine_details], the last an *)
(* Option of [asset_scale]; a store is [accounts, should_fail].  A stage   *)
(* of the future chain passes a value on or fails with a Response status.  *)

Passed(v) == [ok |-> TRUE, val |-> v, status |-> 0]
Failed(status) == [ok |-> FALSE, val |-> <<>>, status |-> status]

\* A::AccountId::from_str(&account_id): an id is written in decimal
\* digits ("-1" is none); failure is mapped to 404.
AccountId_from_str(account_id) ==
    IF Len(account_id) > 0
        /\ \A i \in 1..Len(account_id) :
               account_id[i] >= 48 /\ account_id[i] <= 57
    THEN Passed(account_id)
    ELSE Failed(404)

\* store.get_accounts(vec![account_id]): the accounts of those ids, or an
\* error (mapped to 404) when one is not in the store.
get_accounts(store, account_ids) ==
    LET known(id) == \E i \in 1..Len(store.accounts) :
                        store.accounts[i].id = id
        find(id) == store.accounts[CHOOSE i \in 1..Len(store.accounts) :
                                      store.accounts[i].id = id]
    IN IF \A k \in 1..Len(account_ids) : known(account_ids[k])
       THEN Passed([k \in 1..Len(account_ids) |-> find(account_ids[k])])
       ELSE Failed(404)

\* The third stage taking an engine of scale 0 for an account without one.
settlement_engine_stage_default(accounts) ==
    LET account == accounts[1] IN
    IF account.settlement_engine_details.some
    THEN Passed(<<account, account.settlement_engine_details.val>>)
    ELSE Passed(<<account, [asset_scale |-> 0]>>)

\* The third stage: accounts[0] and its settlement_engine_details(), or
\* 404 when the account has none.
settlement_engine_stage(accounts) ==
    LET account == accounts[1] IN
    IF account.settlement_engine_details.some
    THEN Passed(<<account, account.settlement_engine_details.val>>)
    ELSE Failed(404)

\* The amount in the account's scale: amount * 10u64.pow(account scale -
\* engine scale), or amount / 10u64.pow(engine scale - account scale).
\* A build with overflow checks panics where the power or the product
\* leaves u64, one without keeps the low 64 bits; dividing by a power
\* that wrapped to zero panics in both.  [panic, val, overflow].
scale_amount(amount, account_scale, engine_scale, overflow_checks) ==
    LET up == account_scale >= engine_scale
        power == u64_pow(<<10>>, IF up THEN account_scale - engine_scale
                                 ELSE engine_scale - account_scale)
        product == u64_mul(amount, power.val)
        panicked == [panic |-> TRUE, val |-> <<>>, overflow |-> TRUE]
    IN
    IF overflow_checks /\ power.overflow THEN panicked
    ELSE IF up
    THEN IF overflow_checks /\ product.overflow THEN panicked
         ELSE [panic |-> FALSE, val |-> product.val,
               overflow |-> power.overflow \/ product.overflow]
    ELSE IF Len(power.val) = 0 THEN panicked
    ELSE [panic |-> FALSE, val |-> DivMod(amount, power.val).q,
          overflow |-> power.overflow]

\* store.update_balance_for_incoming_settlement(account_id, amount): the
\* store's error is mapped to 201.
update_balance_for_incoming_settlement(store, account_id, amount) ==
    IF store.should_fail THEN Failed(201) ELSE Passed(<<>>)

\* #[web(status = "200")] struct Success
Success == 200

-----------------------------------------------------------------------------
(* The inputs the caller draws from.                                       *)

\* "test", ".", "a", " " and the lone lead byte 0xF0.
Tokens ==
    { <<116, 101, 115, 116>>, <<46>>, <<97>>, <<32>>, <<240>> }

RECURSIVE TokenStrings(_)
TokenStrings(n) ==
    IF n = 0 THEN {<<>>}
    ELSE LET P == TokenStrings(n - 1) IN
         P \cup { p \o t : p \in P, t \in Tokens }

\* VALID_ADDRESSES of test_address, and the addresses of the other tests.
VALID_ADDRESSES ==
    { <<116, 101, 115, 116, 46, 97, 108, 105, 99, 101, 46, 88, 89, 90, 46,
        49, 50, 51, 52, 46, 45, 95, 126>>,
      <<103, 46, 117, 115, 45, 102, 101, 100, 46, 97, 99, 104, 46, 48, 46,
        97, 99, 109, 101, 98, 97, 110, 107, 46, 115, 119, 120, 48, 97, 48,
        46, 97, 99, 109, 101, 99, 111, 114, 112, 46, 115, 97, 108, 101, 115,
        46, 49, 57, 57, 46, 126, 105, 112, 114, 46, 99, 100, 102, 97, 53,
        101, 49, 54, 45, 101, 55, 53, 57, 45, 52, 98, 97, 51, 45, 56, 56,
        102, 54, 45, 56, 98, 57, 100, 99, 56, 51, 99, 49, 56, 54, 56, 46,
        50>>,
      <<103, 46, 65>>,
      <<112, 114, 105, 118, 97, 116, 101, 46, 65>>,
      <<101, 120, 97, 109, 112, 108, 101, 46, 65>>,
      <<112, 101, 101, 114, 46, 65>>,
      <<115, 101, 108, 102, 46, 65>>,
      <<116, 101, 115, 116, 46, 65>>,
      <<116, 101, 115, 116, 49, 46, 65>>,
      <<116, 101, 115, 116, 50, 46, 65>>,
      <<116, 101, 115, 116, 51, 46, 65>>,
      <<108, 111, 99, 97, 108, 46, 65>>,
      <<116, 101, 115, 116, 46, 97, 108, 105, 99, 101>>,
      <<116, 101, 115, 116, 46, 97, 108, 105, 99, 101, 46, 49, 50, 51, 52,
        46, 53, 55, 56, 57>>,
      <<112, 101, 101, 114, 46, 99, 111, 110, 102, 105, 103>> }

\* INVALID_ADDRESSES of test_address.
INVALID_ADDRESSES ==
    { <<>>,
      <<116, 101, 115, 116, 46, 97, 108, 105, 99, 101, 32, 49, 50, 51>>,
      <<116, 101, 115, 116, 46, 97, 108, 105, 99, 101, 33, 49, 50, 51>>,
      <<116, 101, 115, 116, 46, 97, 108, 105, 99, 101, 47, 49, 50, 51>>,
      <<116, 101, 115, 116, 46, 97, 108, 105, 99, 240>>,
      <<116, 101, 115, 116>>,
      <<119, 104, 97, 116, 46, 97, 108, 105, 99, 101>>,
      <<116, 101, 115, 116, 52, 46, 97, 108, 105, 99, 101>>,
      <<116, 101, 115, 116, 46>>,
      <<116, 101, 115, 116, 46, 97, 108, 105, 99, 101, 46>>,
      <<46, 116, 101, 115, 116, 46, 97, 108, 105, 99, 101>>,
      <<116, 101, 115, 116, 46, 46, 97, 108, 105, 99, 101>> }

\* Inputs that are text but no address: "test.\u{e9}", "Test.alice",
\* "test.alice\n".
MoreInvalid ==
    { <<116, 101, 115, 116, 46, 195, 169>>,
      <<84, 101, 115, 116, 46, 97, 108, 105, 99, 101>>,
      <<116, 101, 115, 116, 46, 97, 108, 105, 99, 101, 10>> }

\* make_address of test_address: "test." resized to length with '_'.
make_address(length) == Resize(<<116, 101, 115, 116, 46>>, length, 95)

\* Lengths around MAX_ADDRESS_LENGTH.
LongLengths ==
    { MAX_ADDRESS_LENGTH - 5, MAX_ADDRESS_LENGTH, MAX_ADDRESS_LENGTH + 1 }

\* Long inputs: make_address(n), and inputs of the longest and of an
\* excessive length whose content is no address (a trailing '.', a space,
\* bytes that are not UTF-8).
LongInputs ==
    { make_address(n) : n \in LongLengths }
    \cup { make_address(MAX_ADDRESS_LENGTH - 1) \o <<46>>,
           make_address(MAX_ADDRESS_LENGTH - 1) \o <<240>>,
           Resize(<<32>>, MAX_ADDRESS_LENGTH + 1, 32),
           Resize(<<240>>, MAX_ADDRESS_LENGTH + 1, 95),
           make_address(MAX_ADDRESS_LENGTH) \o <<46, 46>> }

Inputs ==
    TokenStrings(MaxTokens) \cup VALID_ADDRESSES \cup INVALID_ADDRESSES
        \cup MoreInvalid \cup LongInputs

\* "1234", "12 34", ".1234" of test_with_suffix, and "", "a.b", "1234.",
\* "-_~", 0xF0, U+00E9, "x" * 8.
Suffixes ==
    { <<49, 50, 51, 52>>, <<49, 50, 32, 51, 52>>, <<46, 49, 50, 51, 52>>,
      <<>>, <<97, 46, 98>>, <<49, 50, 51, 52, 46>>, <<45, 95, 126>>,
      <<240>>, <<195, 169>>, Resize(<<>>, 8, 120) }

-----------------------------------------------------------------------------
(* More inputs: of the response builder and of the Prepare builder.        *)

\* Client addresses around the one-byte length prefix (127, 128), the
\* two-byte length (255, 256) and the longest address.
IldcpLengths == { 127, 128, 255, 256, MAX_ADDRESS_LENGTH }
IldcpInputs ==
    { <<116, 101, 115, 116, 46, 97, 108, 105, 99, 101>>,
      <<103, 46, 65>>,
      <<116, 101, 115, 116>>,
      make_address(MAX_ADDRESS_LENGTH + 1) }
    \cup { make_address(n) : n \in IldcpLengths }

Scales == { 0, 9, 128, 255 }

\* "", "USD", "\u{20ac}" (three bytes of UTF-8), "X" * 127, "X" * 128,
\* "X" * 256.
Codes ==
    { <<>>, <<85, 83, 68>>, <<226, 130, 172>>, Resize(<<>>, 127, 88),
      Resize(<<>>, 128, 88), Resize(<<>>, 256, 88) }

\* The buffers handed to IldcpResponse::try_from: the wire form of an
\* address field, a scale byte and an asset-code field, whole, cut short
\* at a byte, or followed by one more byte.  The address payloads are
\* test.alice, "test." padded to 128 bytes, and four that are no address:
\* "test" (one segment), "" (empty), a lone 0xF0 (not UTF-8) and "test."
\* padded to 1024 bytes (too long).
WireForm(address, scale, code) ==
    put_var_octet_string_length(Len(address)) \o address \o <<scale>>
        \o put_var_octet_string_length(Len(code)) \o code

RawAddresses ==
    { <<116, 101, 115, 116, 46, 97, 108, 105, 99, 101>>,
      make_address(128),
      <<116, 101, 115, 116>>,
      <<>>,
      <<240>>,
      make_address(MAX_ADDRESS_LENGTH + 1) }

RawCodes == { <<>>, <<85, 83, 68>>, Resize(<<>>, 128, 88) }

\* Where a buffer is cut: anywhere in a short one, in the first and the
\* last bytes of a long one.
MaxCut == 12
Cuts(b) ==
    { k \in 0..Len(b) : k <= MaxCut \/ k >= Len(b) - MaxCut }

RawBuffers ==
    LET whole == { WireForm(a, 9, c) : a \in RawAddresses, c \in RawCodes }
    IN UNION { { Take(b, k) : k \in Cuts(b) } : b \in whole }
        \cup { b \o <<0>> : b \in whole }

\* Destinations at and next to peer.config: peer.config, peer.confi,
\* peer.config.x, peer.Config, self.config, test.alice.
PrepareInputs ==
    { <<112, 101, 101, 114, 46, 99, 111, 110, 102, 105, 103>>,
      <<112, 101, 101, 114, 46, 99, 111, 110, 102, 105>>,
      <<112, 101, 101, 114, 46, 99, 111, 110, 102, 105, 103, 46, 120>>,
      <<112, 101, 101, 114, 46, 67, 111, 110, 102, 105, 103>>,
      <<115, 101, 108, 102, 46, 99, 111, 110, 102, 105, 103>>,
      <<116, 101, 115, 116, 46, 97, 108, 105, 99, 101>>,
      <<112, 101, 101, 114>> }

\* Execution conditions: the peer-protocol condition, the same with its
\* first or its last byte changed, and 32 zero bytes.
Conditions ==
    { PEER_PROTOCOL_CONDITION,
      [PEER_PROTOCOL_CONDITION EXCEPT ![1] = 103],
      [PEER_PROTOCOL_CONDITION EXCEPT ![32] = 36],
      PEER_PROTOCOL_FULFILLMENT }

Amounts == { 0, 1, 1000000 }
Times == { 0, 1, 1000 }
Payloads == { <<>>, <<0>>, <<1, 2, 3>> }

\* The inputs of the runs that mix the address and the response operations.
MixedSuffixes ==
    { <<49, 50, 51, 52>>, <<49, 50, 32, 51, 52>>, <<46, 49, 50, 51, 52>> }
MixedScales == { 9 }
MixedCodes == { <<85, 83, 68>>, Resize(<<>>, 128, 88) }
MixedInputs ==
    { <<116, 101, 115, 116, 46, 97, 108, 105, 99, 101>>,
      <<116, 101, 115, 116, 46, 97, 108, 105, 99, 101, 32, 49, 50, 51>>,
      <<112, 101, 101, 114, 46, 99, 111, 110, 102, 105, 103>>,
      <<116, 101, 115, 116, 46, 97, 108, 105, 99, 240>>,
      <<103, 46, 65>>,
      <<116, 101, 115, 116>>,
      <<>>,
      make_address(MAX_ADDRESS_LENGTH - 5),
      make_address(MAX_ADDRESS_LENGTH),
      make_address(MAX_ADDRESS_LENGTH + 1) }

-----------------------------------------------------------------------------
(* The state machine.                                                      *)

NoOp == [op |-> "none", arg |-> <<>>, recv |-> None, recvAfter |-> None,
         res |-> Err("none", 0)]
NoSegs == [done |-> FALSE, front |-> <<>>, back |-> <<>>]
NoResponse ==
    [some |-> FALSE, val |-> <<>>, builder |-> <<>>, capacity |-> 0]
NotParsed == [done |-> FALSE, buffer |-> <<>>, res |-> Err("none", 0)]
NoPrepare == [some |-> FALSE, val |-> <<>>, by |-> "none"]
NoFulfill == [some |-> FALSE, val |-> <<>>, of |-> <<>>]
NoCall == [pc |-> "none"]

InitWith(I) ==
    /\ input \in I
    /\ self = None
    /\ last = NoOp
    /\ segs = NoSegs
    /\ response = NoResponse
    /\ parsed = NotParsed
    /\ prepare = NoPrepare
    /\ isreq = None
    /\ now = 0
    /\ fulfill = NoFulfill
    /\ reparsed = NotParsed
    /\ api = NoCall

\* let a = Address::try_from(input)  (or input.parse(), Address::from_str).
TryFrom ==
    /\ last.op = "none"
    /\ LET r == Address_try_from(input) IN
       /\ last' = [op |-> "try_from", arg |-> input, recv |-> None,
                   recvAfter |-> None, res |-> r]
       /\ self' = IF r.ok THEN Some(r.val) ELSE None
    /\ UNCHANGED <<input, segs, ildcpVars, prepareVars, fulfillVars, api>>

\* let b = a.with_suffix(suffix)
WithSuffix(suffix) ==
    /\ self.some
    /\ LET w == with_suffix(self.val, suffix) IN
       /\ last' = [op |-> "with_suffix", arg |-> suffix, recv |-> self,
                   recvAfter |-> Some(w.selfAfter), res |-> w.result]
       /\ self' = Some(w.selfAfter)
    /\ UNCHANGED <<input, segs, ildcpVars, prepareVars, fulfillVars, api>>

\* a = b: the caller goes on with the address the last operation returned.
Rebind ==
    /\ last.op = "with_suffix"
    /\ last.res.ok
    /\ Len(segments(last.res.val)) <= MaxSegments
    /\ self' = Some(last.res.val)
    /\ last' = [op |-> "rebind", arg |-> <<>>, recv |-> self,
                recvAfter |-> self, res |-> last.res]
    /\ segs' = NoSegs
    /\ UNCHANGED <<input, ildcpVars, prepareVars, fulfillVars, api>>

\* let b = a.clone()  (#[derive(Clone)])
Clone ==
    /\ self.some
    /\ last.op # "clone"
    /\ last' = [op |-> "clone", arg |-> <<>>, recv |-> self,
                recvAfter |-> self, res |-> Ok(Address(self.val.bytes))]
    /\ UNCHANGED <<input, self, segs, ildcpVars, prepareVars, fulfillVars, api>>

\* a.segments() collected, and a.segments().rev() collected.
Segments ==
    /\ self.some
    /\ ~segs.done
    /\ segs' = [done |-> TRUE, front |-> segments(self.val),
                back |-> segments_rev(self.val)]
    /\ UNCHANGED <<input, self, last, ildcpVars, prepareVars, fulfillVars, api>>

\* let response = IldcpResponseBuilder { client_address: &a, asset_scale,
\* asset_code }.build()
Build(scale, code) ==
    /\ self.some
    /\ ~response.some
    /\ LET b == [client_address |-> self.val, asset_scale |-> scale,
                 asset_code |-> code]
       IN response' = [some |-> TRUE, val |-> IldcpResponseBuilder_build(b),
                       builder |-> b,
                       capacity |-> IldcpResponseBuilder_buf_size(b)]
    /\ UNCHANGED <<addressVars, parsed, prepareVars, fulfillVars, api>>

\* let parsed = IldcpResponse::try_from(Bytes::from(response))
ParseResponse ==
    /\ response.some
    /\ ~parsed.done
    /\ LET buffer == Bytes_from(response.val) IN
       parsed' = [done |-> TRUE, buffer |-> buffer,
                  res |-> IldcpResponse_try_from(buffer)]
    /\ UNCHANGED <<addressVars, response, prepareVars, fulfillVars, api>>

\* let fulfill = Fulfill::from(response), of the response that was built
\* or of the one that was parsed.
IntoFulfill(which) ==
    /\ ~fulfill.some
    /\ \/ which = "built" /\ response.some
       \/ which = "parsed" /\ parsed.done /\ parsed.res.ok
    /\ LET r == IF which = "built" THEN response.val ELSE parsed.res.val IN
       fulfill' = [some |-> TRUE, val |-> Fulfill_from(r), of |-> r]
    /\ UNCHANGED <<addressVars, ildcpVars, prepareVars, reparsed, api>>

\* let reparsed = IldcpResponse::try_from(Bytes::from(fulfill.data()))
ParseFulfill ==
    /\ fulfill.some
    /\ ~reparsed.done
    /\ LET buffer == Fulfill_data(fulfill.val) IN
       reparsed' = [done |-> TRUE, buffer |-> buffer,
                    res |-> IldcpResponse_try_from(buffer)]
    /\ UNCHANGED <<addressVars, ildcpVars, prepareVars, fulfill, api>>

\* let parsed = IldcpResponse::try_from(Bytes::from(input))
ParseBuffer ==
    /\ ~parsed.done
    /\ parsed' = [done |-> TRUE, buffer |-> input,
                  res |-> IldcpResponse_try_from(input)]
    /\ UNCHANGED <<addressVars, response, prepareVars, fulfillVars, api>>

\* let b = parsed.client_address()
ClientAddress ==
    /\ parsed.done
    /\ parsed.res.ok
    /\ last.op # "client_address"
    /\ last' = [op |-> "client_address", arg |-> <<>>, recv |-> None,
                recvAfter |-> None, res |-> Ok(client_address(parsed.res.val))]
    /\ UNCHANGED <<input, self, segs, ildcpVars, prepareVars, fulfillVars, api>>

\* let prepare = PrepareBuilder { destination: a, .. }.build()
BuildPrepare(amount, condition, expires_at, data) ==
    /\ self.some
    /\ ~prepare.some
    /\ prepare' =
           [some |-> TRUE,
            val |-> PrepareBuilder_build(
                        [destination |-> self.val, amount |-> amount,
                         execution_condition |-> condition,
                         expires_at |-> expires_at, data |-> data]),
            by |-> "PrepareBuilder"]
    /\ UNCHANGED <<addressVars, ildcpVars, fulfillVars, api, isreq, now>>

\* let prepare = IldcpRequest::new().to_prepare()
ToPrepare(systemTimeNow) ==
    /\ ~prepare.some
    /\ now' = systemTimeNow
    /\ prepare' = [some |-> TRUE, val |-> to_prepare(systemTimeNow),
                   by |-> "to_prepare"]
    /\ UNCHANGED <<addressVars, ildcpVars, fulfillVars, api, isreq>>

\* let prepare = Prepare::from(IldcpRequest::new())
IntoPrepare(systemTimeNow) ==
    /\ ~prepare.some
    /\ now' = systemTimeNow
    /\ prepare' = [some |-> TRUE, val |-> From_IldcpRequest(systemTimeNow),
                   by |-> "from"]
    /\ UNCHANGED <<addressVars, ildcpVars, fulfillVars, api, isreq>>

\* is_ildcp_request(&prepare)
IsIldcpRequest ==
    /\ prepare.some
    /\ ~isreq.some
    /\ isreq' = Some(is_ildcp_request(prepare.val))
    /\ UNCHANGED <<addressVars, ildcpVars, fulfillVars, api, prepare, now>>

-----------------------------------------------------------------------------
(* A receive_settlement call, stage by stage.                              *)

\* Account ids in the path: "0", "7" and "-1".
SettlementIds == { <<48>>, <<55>>, <<45, 49>> }

\* Amounts in the body: 0, 1, 999, 2^63 and 2^64 - 1.
SettlementAmounts ==
    { <<>>, <<1>>, <<231, 3>>, <<0, 0, 0, 0, 0, 0, 0, 128>>,
      [i \in 1..8 |-> 255] }

\* Asset scales (u8) of the account and of its settlement engine.
AccountScales == { 0, 2, 9, 20, 255 }
EngineScales == { 0, 9, 19, 30, 84 }

\* Stores: empty, or holding account "0" with or without settlement
\* engine details; their balance update fails or not.
Stores ==
    { [accounts |-> <<>>, should_fail |-> f] : f \in BOOLEAN }
        \cup { [accounts |->
                    <<[id |-> <<48>>, asset_scale |-> a,
                       settlement_engine_details |-> e]>>,
                should_fail |-> f] :
                  a \in AccountScales,
                  e \in {None} \cup { Some([asset_scale |-> n]) :
                                          n \in EngineScales },
                  f \in BOOLEAN }

\* api.receive_settlement(account_id, body) before its future is polled.
NewCall(account_id, amount, store, overflow_checks) ==
    [pc |-> "parse_account_id", account_id |-> account_id,
     amount |-> amount, store |-> store,
     overflow_checks |-> overflow_checks,
     id |-> <<>>, accounts |-> <<>>, pair |-> <<>>, stages |-> <<>>,
     updates |-> <<>>, credited |-> None, overflow |-> FALSE, status |-> 0]

InitSettlement ==
    /\ input = <<>>
    /\ self = None
    /\ last = NoOp
    /\ segs = NoSegs
    /\ response = NoResponse
    /\ parsed = NotParsed
    /\ prepare = NoPrepare
    /\ isreq = None
    /\ now = 0
    /\ fulfill = NoFulfill
    /\ reparsed = NotParsed
    /\ api \in { NewCall(account_id, amount, store, overflow_checks) :
                    account_id \in SettlementIds,
                    amount \in SettlementAmounts,
                    store \in Stores,
                    overflow_checks \in BOOLEAN }

\* result(A::AccountId::from_str(&account_id).map_err(.. 404 ..))
ParseAccountId ==
    /\ api.pc = "parse_account_id"
    /\ LET r == AccountId_from_str(api.account_id) IN
       api' = [api EXCEPT !.stages = Append(@, "parse_account_id"),
                          !.id = r.val,
                          !.status = r.status,
                          !.pc = IF r.ok THEN "get_accounts" ELSE "done"]
    /\ UNCHANGED <<addressVars, ildcpVars, prepareVars, fulfillVars>>

\* .and_then(|account_id| store.get_accounts(vec![account_id]) .. 404 ..)
GetAccounts ==
    /\ api.pc = "get_accounts"
    /\ LET r == get_accounts(api.store, <<api.id>>) IN
       api' = [api EXCEPT !.stages = Append(@, "get_accounts"),
                          !.accounts = r.val,
                          !.status = r.status,
                          !.pc = IF r.ok THEN "settlement_engine_details"
                                 ELSE "done"]
    /\ UNCHANGED <<addressVars, ildcpVars, prepareVars, fulfillVars>>

\* .and_then(|accounts| .. account.settlement_engine_details() .. 404 ..)
SettlementEngineDetails ==
    /\ api.pc = "settlement_engine_details"
    /\ LET r == settlement_engine_stage(api.accounts) IN
       api' = [api EXCEPT !.stages = Append(@, "settlement_engine_details"),
                          !.pair = r.val,
                          !.status = r.status,
                          !.pc = IF r.ok THEN "update_balance" ELSE "done"]
    /\ UNCHANGED <<addressVars, ildcpVars, prepareVars, fulfillVars>>

\* .and_then(|(account, settlement_engine)| .. the amount is scaled and
\* store_clone.update_balance_for_incoming_settlement is called; a panic
\* in the scaling ends the call with no answer.
UpdateBalance ==
    /\ api.pc = "update_balance"
    /\ LET account == api.pair[1]
           settlement_engine == api.pair[2]
           amount == scale_amount(api.amount, account.asset_scale,
                                  settlement_engine.asset_scale,
                                  api.overflow_checks)
       IN
       IF amount.panic
       THEN api' = [api EXCEPT !.stages = Append(@, "update_balance"),
                               !.overflow = TRUE,
                               !.pc = "panicked"]
       ELSE api' = [api EXCEPT !.stages = Append(@, "update_balance"),
                               !.credited = Some(amount.val),
                               !.overflow = amount.overflow,
                               !.updates =
                                   Append(@, [account_id |-> account.id,
                                              amount |-> amount.val]),
                               !.pc = "updating"]
    /\ UNCHANGED <<addressVars, ildcpVars, prepareVars, fulfillVars>>

\* The store's future resolves: .map_err(.. 201 ..), .and_then(Ok(Success))
UpdateBalanceDone ==
    /\ api.pc = "updating"
    /\ LET update == api.updates[Len(api.updates)]
           r == update_balance_for_incoming_settlement(
                    api.store, update.account_id, update.amount)
       IN
       api' = [api EXCEPT !.status = IF r.ok THEN Success ELSE r.status,
                          !.pc = "done"]
    /\ UNCHANGED <<addressVars, ildcpVars, prepareVars, fulfillVars>>

NextSettlement ==
    \/ ParseAccountId
    \/ GetAccounts
    \/ SettlementEngineDetails
    \/ UpdateBalance
    \/ UpdateBalanceDone

NextAddress ==
    \/ TryFrom
    \/ \E suffix \in Suffixes : WithSuffix(suffix)
    \/ Rebind
    \/ Clone
    \/ Segments

NextIldcp ==
    \/ TryFrom
    \/ \E scale \in Scales, code \in Codes : Build(scale, code)
    \/ ParseResponse
    \/ ClientAddress
    \/ \E which \in {"built", "parsed"} : IntoFulfill(which)
    \/ ParseFulfill

NextPrepare ==
    \/ TryFrom
    \/ \E amount \in Amounts, condition \in Conditions, expires_at \in Times,
          data \in Payloads : BuildPrepare(amount, condition, expires_at, data)
    \/ \E t \in Times : ToPrepare(t)
    \/ \E t \in Times : IntoPrepare(t)
    \/ IsIldcpRequest

NextMixed ==
    \/ TryFrom
    \/ \E suffix \in MixedSuffixes : WithSuffix(suffix)
    \/ Rebind
    \/ Clone
    \/ \E scale \in MixedScales, code \in MixedCodes : Build(scale, code)
    \/ ParseResponse
    \/ ClientAddress

NextParse ==
    \/ ParseBuffer
    \/ ClientAddress

\* Address parsing, suffixing, cloning and segment iteration.
SpecAddress == InitWith(Inputs) /\ [][NextAddress]_vars

\* Building and parsing peer-configuration responses.
SpecIldcp == InitWith(IldcpInputs) /\ [][NextIldcp]_vars

\* Building Prepare packets and recognising peer-configuration requests.
SpecPrepare == InitWith(PrepareInputs) /\ [][NextPrepare]_vars

\* The Address operations and the response operations together.
SpecMixed == InitWith(MixedInputs) /\ [][NextMixed]_vars

\* Incoming settlements handled by receive_settlement.
SpecSettlement == InitSettlement /\ [][NextSettlement]_vars

\* Parsing responses from buffers that arrive whole or damaged.
SpecParse == InitWith(RawBuffers) /\ [][NextParse]_vars

-----------------------------------------------------------------------------
(* The address grammar as the specification states it:                     *)
(*   address := scheme ("." segment)+ ,  segment := [A-Za-z0-9_~-]+        *)

GrammarSchemes ==
    { <<103>>,                                  \* g
      <<112, 114, 105, 118, 97, 116, 101>>,     \* private
      <<101, 120, 97, 109, 112, 108, 101>>,     \* example
      <<112, 101, 101, 114>>,                   \* peer
      <<115, 101, 108, 102>>,                   \* self
      <<116, 101, 115, 116>>,                   \* test
      <<116, 101, 115, 116, 49>>,               \* test1
      <<116, 101, 115, 116, 50>>,               \* test2
      <<116, 101, 115, 116, 51>>,               \* test3
      <<108, 111, 99, 97, 108>> }               \* local

GrammarSegmentChars ==
    { c \in 0..255 :
        \/ c >= 65 /\ c <= 90
        \/ c >= 97 /\ c <= 122
        \/ c >= 48 /\ c <= 57
        \/ c = 95 \/ c = 126 \/ c = 45 }

\* S is scheme ("." segment)+ : the text before the first '.' is a scheme,
\* no '.' is last or followed by another '.', and every other byte after
\* the first '.' is a segment character.
InGrammar(S) ==
    /\ \E d \in 1..Len(S) : S[d] = 46
    /\ LET first == CHOOSE d \in 1..Len(S) :
                        S[d] = 46 /\ \A e \in 1..(d - 1) : S[e] # 46
       IN /\ SubSeq(S, 1, first - 1) \in GrammarSchemes
          /\ S[Len(S)] # 46
          /\ \A i \in first..(Len(S) - 1) : S[i] = 46 => S[i + 1] # 46
          /\ \A i \in first..Len(S) : S[i] = 46 \/ S[i] \in GrammarSegmentChars

\* A byte string that is an address: 1 to 1023 bytes, in the grammar.
ValidAddressBytes(S) == Len(S) >= 1 /\ Len(S) <= 1023 /\ InGrammar(S)

RECURSIVE JoinDots(_)
JoinDots(q) ==
    IF Len(q) = 0 THEN <<>>
    ELSE IF Len(q) = 1 THEN q[1]
    ELSE (q[1] \o <<46>>) \o JoinDots(Tail(q))

Parsing == last.op = "try_from"

-----------------------------------------------------------------------------
(* C1: every byte string of 1 to 1023 bytes that is in the address grammar *)
(* parses, and the display form of the Address equals it byte for byte.    *)
C1_ParseDisplayRoundTrip ==
    (Parsing /\ ValidAddressBytes(last.arg)) =>
        /\ last.res.ok
        /\ Display(last.res.val) = last.arg

\* The longest address, 1023 bytes, has been parsed.
C1_Witness ==
    /\ Parsing
    /\ ValidAddressBytes(last.arg)
    /\ Len(last.arg) = 1023
    /\ last.res.ok
    /\ Display(last.res.val) = last.arg

(* C2: every byte string that violates the grammar or is longer than 1023  *)
(* bytes fails to parse, and no Address is produced.                       *)
C2_InvalidRejected ==
    (Parsing /\ ~ValidAddressBytes(last.arg)) =>
        /\ ~last.res.ok
        /\ last.res.val = <<>>
        /\ ~self.some

\* "test..alice" (a doubled separator) has been rejected.
C2_Witness ==
    /\ Parsing
    /\ last.arg = <<116, 101, 115, 116, 46, 46, 97, 108, 105, 99, 101>>
    /\ ~ValidAddressBytes(last.arg)
    /\ ~last.res.ok
    /\ ~self.some

AddressParsed == last.op \in {"try_from", "with_suffix"}
\* The bytes the last operation handed to Address::try_from.
ParsedBytes ==
    IF last.op = "with_suffix"
    THEN (last.recv.val.bytes \o <<46>>) \o last.arg
    ELSE last.arg

(* C3 as stated: every failure of Address parsing is InvalidLength or      *)
(* InvalidFormat: InvalidLength above 1023 bytes, InvalidFormat for every  *)
(* other rejected input, bytes that are not valid text included.           *)
C3_Original ==
    (AddressParsed /\ ~last.res.ok) =>
        /\ last.res.err \in {"InvalidLength", "InvalidFormat"}
        /\ (Len(ParsedBytes) > 1023 => last.res.err = "InvalidLength")
        /\ (Len(ParsedBytes) <= 1023 => last.res.err = "InvalidFormat")

(* C3 amended: a failure is InvalidLength (carrying the length) above 1023  *)
(* bytes whatever the content, Utf8 for an input of at most 1023 bytes     *)
(* that is not valid UTF-8, and InvalidFormat for every other rejected     *)
(* input, the empty one included.                                          *)
C3_ErrorKinds ==
    (AddressParsed /\ ~last.res.ok) =>
        /\ last.res.err \in {"InvalidLength", "InvalidFormat", "Utf8"}
        /\ (Len(ParsedBytes) > 1023 <=> last.res.err = "InvalidLength")
        /\ (last.res.err = "InvalidLength" => last.res.len = Len(ParsedBytes))
        /\ (Len(ParsedBytes) <= 1023 =>
               (last.res.err = "Utf8" <=> ~from_utf8_ok(ParsedBytes)))
        /\ (Len(ParsedBytes) = 0 => last.res.err = "InvalidFormat")

\* An input of 1024 bytes that is not UTF-8 either has failed with
\* InvalidLength.
C3_Witness ==
    /\ Parsing
    /\ Len(last.arg) = 1024
    /\ ~from_utf8_ok(last.arg)
    /\ ~last.res.ok
    /\ last.res.err = "InvalidLength"

(* C4: a.with_suffix(s) returns exactly the result of parsing a + "." + s, *)
(* and a is unchanged after the call.                                      *)
C4_WithSuffixIsParse ==
    last.op = "with_suffix" =>
        /\ last.res = Address_try_from((last.recv.val.bytes \o <<46>>) \o last.arg)
        /\ (ValidAddressBytes(ParsedBytes) =>
               last.res.ok /\ last.res.val = Address(ParsedBytes))
        /\ (~ValidAddressBytes(ParsedBytes) => ~last.res.ok)
        /\ last.recvAfter = last.recv
        /\ self = last.recv

\* test.alice suffixed with "1234" is test.alice.1234.
C4_Witness ==
    /\ last.op = "with_suffix"
    /\ last.recv.val.bytes = <<116, 101, 115, 116, 46, 97, 108, 105, 99, 101>>
    /\ last.arg = <<49, 50, 51, 52>>
    /\ last.res.ok
    /\ last.res.val.bytes =
           <<116, 101, 115, 116, 46, 97, 108, 105, 99, 101, 46, 49, 50, 51, 52>>
    /\ self = last.recv

\* s is a single address segment: not empty, every byte a segment character.
SingleSegment(s) ==
    Len(s) >= 1 /\ \A i \in 1..Len(s) : s[i] \in GrammarSegmentChars

\* s is one or more segments separated by single '.'.
SegmentPath(s) ==
    /\ Len(s) >= 1
    /\ s[1] # 46
    /\ s[Len(s)] # 46
    /\ \A i \in 1..(Len(s) - 1) : s[i] = 46 => s[i + 1] # 46
    /\ \A i \in 1..Len(s) : s[i] = 46 \/ s[i] \in GrammarSegmentChars

(* C5 as stated: with_suffix(s) fails whenever s is not a single valid     *)
(* segment: empty, containing a '.' anywhere, or a byte outside the class. *)
C5_Original ==
    (last.op = "with_suffix" /\ ~SingleSegment(last.arg)) => ~last.res.ok

(* C5 amended: with_suffix(s) fails whenever s is not a sequence of one or *)
(* more valid segments separated by single '.': empty, a leading, trailing *)
(* or doubled '.', or a byte outside [A-Za-z0-9_~-] and '.'.               *)
C5_BadSuffixFails ==
    (last.op = "with_suffix" /\ ~SegmentPath(last.arg)) => ~last.res.ok

\* test.alice suffixed with ".1234" has failed.
C5_Witness ==
    /\ last.op = "with_suffix"
    /\ last.recv.val.bytes = <<116, 101, 115, 116, 46, 97, 108, 105, 99, 101>>
    /\ last.arg = <<46, 49, 50, 51, 52>>
    /\ ~last.res.ok

(* C6: segments() of a valid Address yields at least two non-empty strings *)
(* without '.', the first being the scheme, whose join with '.' is the     *)
(* address; from the back it yields the same elements in reverse order.    *)
C6_Segments ==
    segs.done =>
        /\ Len(segs.front) >= 2
        /\ \A i \in 1..Len(segs.front) :
              /\ Len(segs.front[i]) >= 1
              /\ \A k \in 1..Len(segs.front[i]) : segs.front[i][k] # 46
        /\ segs.front[1] \in GrammarSchemes
        /\ JoinDots(segs.front) = self.val.bytes
        /\ segs.back = Reverse(segs.front)

\* test.alice.1234.5789 yields test, alice, 1234, 5789.
C6_Witness ==
    /\ segs.done
    /\ self.val.bytes = <<116, 101, 115, 116, 46, 97, 108, 105, 99, 101, 46,
                          49, 50, 51, 52, 46, 53, 55, 56, 57>>
    /\ segs.front = << <<116, 101, 115, 116>>, <<97, 108, 105, 99, 101>>,
                       <<49, 50, 51, 52>>, <<53, 55, 56, 57>> >>
    /\ segs.back = << <<53, 55, 56, 57>>, <<49, 50, 51, 52>>,
                      <<97, 108, 105, 99, 101>>, <<116, 101, 115, 116>> >>

\* Every Address value the state holds.
LiveAddresses ==
    (IF self.some THEN {self.val} ELSE {})
    \cup (IF last.res.ok THEN {last.res.val} ELSE {})
    \cup (IF last.recv.some THEN {last.recv.val} ELSE {})
    \cup (IF last.recvAfter.some THEN {last.recvAfter.val} ELSE {})
    \cup (IF response.some
          THEN {response.val.ilp_address, response.builder.client_address}
          ELSE {})
    \cup (IF parsed.res.ok THEN {parsed.res.val.ilp_address} ELSE {})
    \cup (IF prepare.some THEN {prepare.val.destination} ELSE {})

(* C7: after any sequence of parsing, with_suffix, clone and               *)
(* client_address() of a parsed response, every Address that exists has 1  *)
(* to 1023 bytes and is in the address grammar.                            *)
C7_EveryAddressValid ==
    \A a \in LiveAddresses : ValidAddressBytes(a.bytes)

\* The client address read from a parsed response is an address of 1023
\* bytes that with_suffix made and the caller went on with.
C7_Witness ==
    /\ last.op = "client_address"
    /\ last.res.ok
    /\ Len(last.res.val.bytes) = 1023
    /\ self.some
    /\ self.val = last.res.val
    /\ self.val.bytes # input

\* "peer.config" and the published condition, as the protocol fixes them.
PeerConfigBytes == <<112, 101, 101, 114, 46, 99, 111, 110, 102, 105, 103>>
PublishedCondition ==
    <<102, 104, 122, 173, 248, 98, 189, 119, 108, 143, 193, 139, 142, 159,
      142, 32, 8, 151, 20, 133, 110, 226, 51, 179, 144, 42, 89, 29, 13, 95,
      41, 37>>

(* C8: is_ildcp_request(p) is true exactly when the destination of p is    *)
(* peer.config and its execution condition is the peer-protocol condition; *)
(* amount, expiry and data have no part in it.                             *)
C8_RequestRecognition ==
    isreq.some =>
        (isreq.val <=>
            /\ prepare.val.destination.bytes = PeerConfigBytes
            /\ prepare.val.execution_condition = PublishedCondition)

\* A Prepare to peer.config with the condition, a non-zero amount and data
\* has been recognised.
C8_Witness ==
    /\ isreq.some
    /\ isreq.val
    /\ prepare.by = "PrepareBuilder"
    /\ prepare.val.amount = 1000000
    /\ prepare.val.data = <<1, 2, 3>>
    /\ prepare.val.expires_at = 1

(* C9: a Prepare made by to_prepare or by From<IldcpRequest> goes to        *)
(* peer.config with amount 0, the peer-protocol condition, no data and an  *)
(* expiry 60 seconds after its creation, and is_ildcp_request accepts it.  *)
C9_RequestPrepare ==
    (prepare.some /\ prepare.by \in {"to_prepare", "from"}) =>
        /\ prepare.val.destination.bytes = PeerConfigBytes
        /\ prepare.val.amount = 0
        /\ prepare.val.execution_condition = PublishedCondition
        /\ prepare.val.data = <<>>
        /\ prepare.val.expires_at = now + 60
        /\ (isreq.some => isreq.val)

\* A Prepare converted from an IldcpRequest at time 1000 expires at 1060
\* and has been recognised.
C9_Witness ==
    /\ prepare.some
    /\ prepare.by = "from"
    /\ now = 1000
    /\ prepare.val.expires_at = 1060
    /\ isreq.some
    /\ isreq.val

(* C10: parsing the buffer of a built response succeeds and gives back the *)
(* builder's client address, asset scale and asset code.                   *)
C10_ResponseRoundTrip ==
    parsed.done =>
        /\ parsed.buffer = response.val.buffer
        /\ parsed.res.ok
        /\ client_address(parsed.res.val) = response.builder.client_address
        /\ asset_scale(parsed.res.val) = response.builder.asset_scale
        /\ asset_code(parsed.res.val) = Ok(response.builder.asset_code)

\* The response for an address of 1023 bytes, scale 255 and a code of 128
\* bytes has been built and parsed back.
C10_Witness ==
    /\ parsed.done
    /\ parsed.res.ok
    /\ Len(response.builder.client_address.bytes) = 1023
    /\ response.builder.asset_scale = 255
    /\ Len(response.builder.asset_code) = 128
    /\ client_address(parsed.res.val) = response.builder.client_address
    /\ asset_code(parsed.res.val) = Ok(response.builder.asset_code)

-----------------------------------------------------------------------------
\* The step of the response layout at which a buffer first falls short:
\* "address_field" when the address field is cut short, "address" when its
\* payload is no address, "scale" when no byte follows the address field,
\* "asset_code" when the asset-code field is cut short, "none" otherwise.
FirstFailure(b) ==
    LET a == read_var_octet_string(b) IN
    IF ~a.ok THEN "address_field"
    ELSE IF ~ValidAddressBytes(a.val) THEN "address"
    ELSE IF Len(a.rest) = 0 THEN "scale"
    ELSE IF ~read_var_octet_string(Tail(a.rest)).ok THEN "asset_code"
    ELSE "none"

(* C11: IldcpResponse::try_from fails with a parse error and gives no      *)
(* response exactly when the address field is cut short, its payload is no *)
(* valid Address, the scale byte is missing or the asset-code field is cut *)
(* short; the steps run in that order and the error is that of the first   *)
(* step that fails (an address error for the payload, an Io error for a    *)
(* buffer that ends early).                                                *)
C11_ParseFailures ==
    parsed.done =>
        LET f == FirstFailure(parsed.buffer) IN
        /\ parsed.res.ok <=> f = "none"
        /\ f # "none" => parsed.res.val = <<>>
        /\ f \in {"address_field", "scale", "asset_code"} =>
               parsed.res.err = "Io"
        /\ f = "address" =>
               parsed.res.err \in {"InvalidLength", "InvalidFormat", "Utf8"}

\* The buffer <<4>> \o "test" has been parsed: its address payload is no
\* address and its scale byte is missing, and the error is the address's.
C11_Witness ==
    /\ parsed.done
    /\ parsed.buffer = <<4, 116, 101, 115, 116>>
    /\ FirstFailure(parsed.buffer) = "address"
    /\ ~parsed.res.ok
    /\ parsed.res.err = "InvalidFormat"

-----------------------------------------------------------------------------
-----------------------------------------------------------------------------
\* The bytes a length prefix takes: one below 128, else one and the bytes
\* of the length (lengths here stay below 2^24).
PrefixBytes(n) ==
    IF n < 128 THEN 1 ELSE IF n < 256 THEN 2 ELSE IF n < 65536 THEN 3 ELSE 4

-----------------------------------------------------------------------------
\* The responses at hand: the built one and the ones try_from returned.
ResponsesAtHand ==
    (IF response.some THEN {response.val} ELSE {})
        \cup (IF parsed.done /\ parsed.res.ok THEN {parsed.res.val} ELSE {})
        \cup (IF reparsed.done /\ reparsed.res.ok
              THEN {reparsed.res.val} ELSE {})

-----------------------------------------------------------------------------
\* The stages of receive_settlement in their order.
StageOrder ==
    <<"parse_account_id", "get_accounts", "settlement_engine_details",
      "update_balance">>

\* What the request and the store are, read off the call's inputs.
IdIsDecimal ==
    /\ Len(api.account_id) > 0
    /\ \A i \in 1..Len(api.account_id) : api.account_id[i] \in 48..57
AccountInStore ==
    \E i \in 1..Len(api.store.accounts) :
        api.store.accounts[i].id = api.account_id
EngineConfigured ==
    \E i \in 1..Len(api.store.accounts) :
        /\ api.store.accounts[i].id = api.account_id
        /\ api.store.accounts[i].settlement_engine_details.some
EarlierStagesPass == IdIsDecimal /\ AccountInStore /\ EngineConfigured

(* C15: the stages of receive_settlement run in order (account id, store   *)
(* lookup, settlement-engine details, balance update), each at most once;  *)
(* when one of the first three fails the answer is 404 and the balance     *)
(* update is never invoked; the update is invoked at most once and only    *)
(* after the three earlier stages passed; a failed update answers 201 and  *)
(* only a successful update answers 200.                                   *)
C15_StagedSettlement ==
    api.pc # "none" =>
        /\ Len(api.stages) <= 4
        /\ api.stages = SubSeq(StageOrder, 1, Len(api.stages))
        /\ api.status \in {0, 404, 201, 200}
        /\ Len(api.updates) <= 1
        /\ Len(api.updates) = 1 =>
               (Len(api.stages) = 4 /\ EarlierStagesPass)
        /\ (Len(api.stages) >= 1 /\ ~IdIsDecimal) =>
               (api.status = 404 /\ Len(api.stages) = 1)
        /\ (Len(api.stages) >= 2 /\ ~AccountInStore) =>
               (api.status = 404 /\ Len(api.stages) = 2)
        /\ (Len(api.stages) >= 3 /\ ~EngineConfigured) =>
               (api.status = 404 /\ Len(api.stages) = 3)
        /\ api.status = 404 =>
               (~EarlierStagesPass /\ Len(api.updates) = 0)
        /\ api.status = 201 =>
               (Len(api.updates) = 1 /\ api.store.should_fail)
        /\ api.status = 200 =>
               (Len(api.updates) = 1 /\ ~api.store.should_fail)
        /\ api.pc = "done" =>
               api.status = IF ~EarlierStagesPass THEN 404
                            ELSE IF api.store.should_fail THEN 201
                            ELSE 200

\* A call for account "0" whose store fails the balance update: the four
\* stages ran, the update was invoked once, the answer is 201.
C15_Witness ==
    /\ api.pc = "done"
    /\ api.stages = StageOrder
    /\ api.store.should_fail
    /\ Len(api.updates) = 1
    /\ api.status = 201

-----------------------------------------------------------------------------
\* x * 10^d and floor(x / 10^d) over the unbounded naturals, a factor of
\* ten at a time.
RECURSIVE TimesTenTo(_, _)
TimesTenTo(x, d) ==
    IF d = 0 THEN x
    ELSE CHOOSE res \in { TimesTenTo(y, d - 1) : y \in {MulSmall(x, 10)} } :
             TRUE

RECURSIVE OverTenTo(_, _)
OverTenTo(x, d) ==
    IF d = 0 \/ Len(x) = 0 THEN x
    ELSE CHOOSE res \in { OverTenTo(y, d - 1) : y \in {DivSmall(x, 10)} } :
             TRUE

\* The amount in the account's scale, as arithmetic has it.
ExactAmount(amount, account_scale, engine_scale) ==
    IF account_scale >= engine_scale
    THEN TimesTenTo(Norm(amount), account_scale - engine_scale)
    ELSE OverTenTo(Norm(amount), engine_scale - account_scale)

\* The fourth stage has run.
Scaled == api.pc # "none" /\ Len(api.stages) = 4

(* C16: for every u64 amount and every pair of 8-bit scales the amount     *)
(* credited is exact: amount * 10^(account scale - engine scale) when the  *)
(* account scale is at least the engine scale, floor(amount / 10^(engine   *)
(* scale - account scale)) otherwise; neither the power of ten nor the     *)
(* product leaves the u64 range (nothing overflows or wraps).              *)
C16_ExactScaling ==
    Scaled =>
        LET account == api.pair[1]
            settlement_engine == api.pair[2]
        IN
        /\ api.pc # "panicked"
        /\ ~api.overflow
        /\ api.credited.some
        /\ Len(api.updates) = 1
        /\ api.updates[1].amount = api.credited.val
        /\ api.credited.val =
               ExactAmount(api.amount, account.asset_scale,
                           settlement_engine.asset_scale)

====
